---- MODULE Spec2Model ----
(***************************************************************************)
(* MocknetController (testnet/stacks-node/src/burnchains/                  *)
(* mocknet_controller.rs): a simulated burnchain.  Callers queue burnchain *)
(* operations with submit_operation; sync builds the next block header     *)
(* from the cached chain tip, drains and stamps the queue, and hands the   *)
(* batch to the sortition ledger inside one transaction.                   *)
(*                                                                         *)
(* Option<T> is a sequence of length at most 1: <<>> is None, <<v>> is     *)
(* Some(v).  Byte strings and hashes are sequences of integers.  A panic   *)
(* (unreachable!(), unwrap(), expect()) unwinds out of the call; the call  *)
(* is recorded in `result` and the controller keeps the state the call     *)
(* left behind.                                                            *)
(***************************************************************************)
EXTENDS Integers, Sequences, FiniteSets, TLC

\* ------------------------------------------------------------------ bounds
MaxSeed == 1        \* distinct caller payloads per operation variant
MaxSubmits == 2     \* submit_operation calls in one run
MaxSyncs == 2       \* sync calls that get past get_chain_tip in one run
MaxTime == 1        \* readings of the wall clock: 0..MaxTime
NumProducers == 2   \* concurrent producers calling submit_operation
OpsPerProducer == 2 \* operations each producer submits, in its own order

VARIABLES
    now,                \* the wall clock (get_epoch_time_secs, Instant::now)
    ledger,             \* the snapshots durably stored in the sortition DB file
    db,                 \* MocknetController.db: Option<SortitionDB>
    chain_tip,          \* MocknetController.chain_tip: Option<BurnchainTip>
    queued_operations,  \* MocknetController.queued_operations: VecDeque
    result,             \* the last call on the controller and what it returned
    submit_log,         \* history: every operation submitted, in call order
    sync_log            \* history: every sync that got past get_chain_tip

vars == <<now, ledger, db, chain_tip, queued_operations, result,
          submit_log, sync_log>>

\* ------------------------------------------------------- hashes and bytes
\* Sha256Sum::from_data: a deterministic function of the bytes, injective
\* (collisions are treated as not occurring).  The tag keeps a digest
\* distinct from the bytes it was computed from.
SHA256_TAG == -256

Sha256Sum_from_data(data) == <<SHA256_TAG>> \o data

\* BurnchainHeaderHash([0u8; 32]), the first block hash start() passes to
\* SortitionDB::connect.
ZERO_HASH == <<0>>

\* The decimal digits of n as ASCII bytes, as `{}` formats an integer.
RECURSIVE Decimal(_)
Decimal(n) ==
    IF n < 10 THEN <<48 + n>>
    ELSE Decimal(n \div 10) \o <<48 + (n % 10)>>

\* format!("{}::{}", block_height, vtxindex).as_bytes()
FormatTxidInput(block_height, vtxindex) ==
    Decimal(block_height) \o <<58, 58>> \o Decimal(vtxindex)

\* A txid hashed from the block height alone.
MakeTxid_height_only(block_height, vtxindex) ==
    Sha256Sum_from_data(Decimal(block_height))

\* Txid(Sha256Sum::from_data(format!(...).as_bytes()).0)
MakeTxid(block_height, vtxindex) ==
    Sha256Sum_from_data(FormatTxidInput(block_height, vtxindex))

\* ------------------------------------------------------------- operations
\* The fields every variant carries and sync overwrites.
StampedFields == {"txid", "vtxindex", "block_height", "burn_header_hash"}

\* The operations callers submit.  A caller hands over a complete struct,
\* so the four stamped fields hold whatever the caller put there.  Every
\* payload field of seed s has a value no other field and no other seed has.
LeaderKeyRegisterOp(s) ==
    [kind |-> "LeaderKeyRegister",
     consensus_hash |-> 100 + s, public_key |-> 110 + s, memo |-> 120 + s,
     address |-> 130 + s,
     txid |-> <<900 + s>>, vtxindex |-> 0, block_height |-> 0,
     burn_header_hash |-> <<910 + s>>]

LeaderBlockCommitOp(s) ==
    [kind |-> "LeaderBlockCommit",
     block_header_hash |-> 200 + s, new_seed |-> 210 + s,
     parent_block_ptr |-> 220 + s, parent_vtxindex |-> 230 + s,
     key_block_ptr |-> 240 + s, key_vtxindex |-> 250 + s, memo |-> 260 + s,
     burn_fee |-> 270 + s, input |-> 280 + s,
     txid |-> <<920 + s>>, vtxindex |-> 0, block_height |-> 0,
     burn_header_hash |-> <<930 + s>>]

UserBurnSupportOp(s) ==
    [kind |-> "UserBurnSupport",
     address |-> 300 + s, consensus_hash |-> 310 + s, public_key |-> 320 + s,
     key_block_ptr |-> 330 + s, key_vtxindex |-> 340 + s,
     block_header_hash_160 |-> 350 + s, burn_fee |-> 360 + s,
     txid |-> <<940 + s>>, vtxindex |-> 0, block_height |-> 0,
     burn_header_hash |-> <<950 + s>>]

BlockstackOperationType ==
    { LeaderKeyRegisterOp(s) : s \in 1..MaxSeed }
      \cup { LeaderBlockCommitOp(s) : s \in 1..MaxSeed }
      \cup { UserBurnSupportOp(s) : s \in 1..MaxSeed }

\* What the caller supplied: the operation without the four stamped fields.
Payload(op) == [f \in (DOMAIN op) \ StampedFields |-> op[f]]

Payloads(ops) == [i \in 1..Len(ops) |-> Payload(ops[i])]

\* --------------------------------------------------------- header chaining
\* build_next_block_header without the `+ 1`.
build_next_block_header_same_height(current_block, time) ==
    [block_height |-> current_block.block_height,
     block_hash |-> Sha256Sum_from_data(current_block.burn_header_hash),
     parent_block_hash |-> current_block.burn_header_hash,
     num_txs |-> 0,
     timestamp |-> time]

\* build_next_block_header with the two hash arguments of BitcoinBlock::new
\* in each other's place.
build_next_block_header_swapped_hashes(current_block, time) ==
    [block_height |-> current_block.block_height + 1,
     block_hash |-> current_block.burn_header_hash,
     parent_block_hash |-> Sha256Sum_from_data(current_block.burn_header_hash),
     num_txs |-> 0,
     timestamp |-> time]

\* build_next_block_header; `time` is the value get_epoch_time_secs()
\* returns during the call.
build_next_block_header(current_block, time) ==
    LET curr_hash == current_block.burn_header_hash
        next_hash == Sha256Sum_from_data(curr_hash)
    IN  [block_height |-> current_block.block_height + 1,
         block_hash |-> next_hash,
         parent_block_hash |-> current_block.burn_header_hash,
         num_txs |-> 0,
         timestamp |-> time]

\* ---------------------------------------------------------------- stamping
\* A txid that also hashes what the caller supplied.
StampTxid_from_content(payload, next_block_header, vtxindex) ==
    Sha256Sum_from_data(
        FormatTxidInput(next_block_header.block_height, vtxindex) \o payload.txid)

\* The txid sync computes at the top of each loop iteration.
StampTxid(payload, next_block_header, vtxindex) ==
    MakeTxid(next_block_header.block_height, vtxindex)

\* The three arms of the match in sync: each copies the payload fields of
\* its variant and sets the four stamped fields.
StampLeaderKeyRegister(payload, txid, vtxindex, next_block_header) ==
    [kind |-> "LeaderKeyRegister",
     consensus_hash |-> payload.consensus_hash,
     public_key |-> payload.public_key,
     memo |-> payload.memo,
     address |-> payload.address,
     txid |-> txid,
     vtxindex |-> vtxindex,
     block_height |-> next_block_header.block_height,
     burn_header_hash |-> next_block_header.block_hash]

\* The LeaderBlockCommit arm with the two block pointers crossed.
StampLeaderBlockCommit_crossed_ptrs(payload, txid, vtxindex, next_block_header) ==
    [kind |-> "LeaderBlockCommit",
     block_header_hash |-> payload.block_header_hash,
     new_seed |-> payload.new_seed,
     parent_block_ptr |-> payload.key_block_ptr,
     parent_vtxindex |-> payload.parent_vtxindex,
     key_block_ptr |-> payload.parent_block_ptr,
     key_vtxindex |-> payload.key_vtxindex,
     memo |-> payload.memo,
     burn_fee |-> payload.burn_fee,
     input |-> payload.input,
     txid |-> txid,
     vtxindex |-> vtxindex,
     block_height |-> next_block_header.block_height,
     burn_header_hash |-> next_block_header.block_hash]

StampLeaderBlockCommit(payload, txid, vtxindex, next_block_header) ==
    [kind |-> "LeaderBlockCommit",
     block_header_hash |-> payload.block_header_hash,
     new_seed |-> payload.new_seed,
     parent_block_ptr |-> payload.parent_block_ptr,
     parent_vtxindex |-> payload.parent_vtxindex,
     key_block_ptr |-> payload.key_block_ptr,
     key_vtxindex |-> payload.key_vtxindex,
     memo |-> payload.memo,
     burn_fee |-> payload.burn_fee,
     input |-> payload.input,
     txid |-> txid,
     vtxindex |-> vtxindex,
     block_height |-> next_block_header.block_height,
     burn_header_hash |-> next_block_header.block_hash]

\* The UserBurnSupport arm copying the caller's block_height and
\* burn_header_hash along with the payload.
StampUserBurnSupport_copies_all(payload, txid, vtxindex, next_block_header) ==
    [kind |-> "UserBurnSupport",
     address |-> payload.address,
     consensus_hash |-> payload.consensus_hash,
     public_key |-> payload.public_key,
     key_block_ptr |-> payload.key_block_ptr,
     key_vtxindex |-> payload.key_vtxindex,
     block_header_hash_160 |-> payload.block_header_hash_160,
     burn_fee |-> payload.burn_fee,
     txid |-> txid,
     vtxindex |-> vtxindex,
     block_height |-> payload.block_height,
     burn_header_hash |-> payload.burn_header_hash]

StampUserBurnSupport(payload, txid, vtxindex, next_block_header) ==
    [kind |-> "UserBurnSupport",
     address |-> payload.address,
     consensus_hash |-> payload.consensus_hash,
     public_key |-> payload.public_key,
     key_block_ptr |-> payload.key_block_ptr,
     key_vtxindex |-> payload.key_vtxindex,
     block_header_hash_160 |-> payload.block_header_hash_160,
     burn_fee |-> payload.burn_fee,
     txid |-> txid,
     vtxindex |-> vtxindex,
     block_height |-> next_block_header.block_height,
     burn_header_hash |-> next_block_header.block_hash]

\* One iteration of the loop body: the txid, then the match on the variant.
StampOp(payload, next_block_header, vtxindex) ==
    LET txid == StampTxid(payload, next_block_header, vtxindex)
    IN  CASE payload.kind = "LeaderKeyRegister" ->
               StampLeaderKeyRegister(payload, txid, vtxindex, next_block_header)
          [] payload.kind = "LeaderBlockCommit" ->
               StampLeaderBlockCommit(payload, txid, vtxindex, next_block_header)
          [] payload.kind = "UserBurnSupport" ->
               StampUserBurnSupport(payload, txid, vtxindex, next_block_header)

\* `let mut vtxindex = 1`
FirstVtxindex == 1

\* DrainLoop without `vtxindex += 1`.
RECURSIVE DrainLoop_no_increment(_, _, _, _)
DrainLoop_no_increment(queue, ops, vtxindex, next_block_header) ==
    IF queue = <<>> THEN [queue |-> queue, ops |-> ops]
    ELSE DrainLoop_no_increment(Tail(queue),
                   Append(ops, StampOp(Head(queue), next_block_header, vtxindex)),
                   vtxindex,
                   next_block_header)

\* The while-let loop of sync: pop_front until the queue is empty, stamp
\* each payload, push it on ops, bump vtxindex.  Returns the queue and the
\* ops the loop ends with.
RECURSIVE DrainLoop(_, _, _, _)
DrainLoop(queue, ops, vtxindex, next_block_header) ==
    IF queue = <<>> THEN [queue |-> queue, ops |-> ops]
    ELSE DrainLoop(Tail(queue),
                   Append(ops, StampOp(Head(queue), next_block_header, vtxindex)),
                   vtxindex + 1,
                   next_block_header)

\* ------------------------------------------------------ the sortition ledger
\* SortitionDB::connect(path, 0, &BurnchainHeaderHash([0u8; 32]), time, true):
\* opens the DB file and, when the file is new, stores the first snapshot.
FIRST_BLOCK_HEIGHT == 0

SortitionId(burn_header_hash) == <<-1>> \o burn_header_hash

InitialSnapshot(time) ==
    [block_height |-> FIRST_BLOCK_HEIGHT,
     burn_header_hash |-> ZERO_HASH,
     parent_burn_header_hash |-> ZERO_HASH,
     burn_header_timestamp |-> time,
     sortition_id |-> SortitionId(ZERO_HASH)]

SortitionDB_connect(stored, time) ==
    IF stored = <<>> THEN <<InitialSnapshot(time)>> ELSE stored

\* SortitionDB::get_canonical_burn_chain_tip_stubbed: the highest snapshot.
get_canonical_burn_chain_tip_stubbed(stored) == stored[Len(stored)]

\* The subsequence of ops at the positions in keep.
RECURSIVE SelectOps(_, _, _)
SelectOps(ops, keep, i) ==
    IF i > Len(ops) THEN <<>>
    ELSE (IF i \in keep THEN <<ops[i]>> ELSE <<>>) \o SelectOps(ops, keep, i + 1)

RECURSIVE BlockCommits(_)
BlockCommits(ops) ==
    IF ops = <<>> THEN <<>>
    ELSE (IF Head(ops).kind = "LeaderBlockCommit" THEN <<Head(ops)>> ELSE <<>>)
           \o BlockCommits(Tail(ops))

\* SortitionHandleTx::process_block_ops(burnchain, parent_snapshot, header,
\* ops): the ledger decides which ops it accepts (keep: the positions it
\* accepts) and returns the snapshot of the block the header describes with
\* the record of what changed.
process_block_ops(parent_snapshot, next_block_header, ops, keep) ==
    LET accepted == SelectOps(ops, keep, 1)
        commits == BlockCommits(accepted)
    IN  [block_snapshot |->
           [block_height |-> next_block_header.block_height,
            burn_header_hash |-> next_block_header.block_hash,
            parent_burn_header_hash |-> next_block_header.parent_block_hash,
            burn_header_timestamp |-> next_block_header.timestamp,
            sortition_id |-> SortitionId(next_block_header.block_hash)],
         state_transition |->
           [burn_dist |-> [i \in 1..Len(commits) |->
                             [candidate |-> commits[i].txid,
                              burns |-> commits[i].burn_fee]],
            accepted_ops |-> accepted,
            consumed_leader_keys |-> [i \in 1..Len(commits) |->
                             [key_block_ptr |-> commits[i].key_block_ptr,
                              key_vtxindex |-> commits[i].key_vtxindex]]]]

\* ------------------------------------------------------------ call results
\* why: the unreachable!(), unwrap() or expect() that panicked.
Panic(op, why) ==
    [op |-> op, panicked |-> TRUE, why |-> why, tip |-> <<>>, accepted |-> <<>>]

ReturnTip(op, tip) ==
    [op |-> op, panicked |-> FALSE, why |-> "", tip |-> <<tip>>, accepted |-> <<>>]

ReturnBool(op, b) ==
    [op |-> op, panicked |-> FALSE, why |-> "", tip |-> <<>>, accepted |-> <<b>>]

\* ------------------------------------------------------------------- state
\* MocknetController::new: no DB, no tip, an empty queue.  The DB file does
\* not exist yet.
Init ==
    /\ now = 0
    /\ ledger = <<>>
    /\ db = <<>>
    /\ chain_tip = <<>>
    /\ queued_operations = <<>>
    /\ result = [op |-> "new", panicked |-> FALSE, why |-> "", tip |-> <<>>,
                 accepted |-> <<>>]
    /\ submit_log = <<>>
    /\ sync_log = <<>>

\* The wall clock moves on between calls.
Tick ==
    /\ now < MaxTime
    /\ now' = now + 1
    /\ UNCHANGED <<ledger, db, chain_tip, queued_operations, result,
                   submit_log, sync_log>>

\* get_chain_tip: a clone of the cached tip, or unreachable!().
get_chain_tip(tip) == tip

\* get_chain_tip answering with a default tip when none is cached.
GetChainTip_default_tip ==
    /\ result' = ReturnTip("get_chain_tip",
                           IF chain_tip = <<>>
                           THEN [block_snapshot |-> InitialSnapshot(now),
                                 state_transition |-> [burn_dist |-> <<>>,
                                                       accepted_ops |-> <<>>,
                                                       consumed_leader_keys |-> <<>>],
                                 received_at |-> now]
                           ELSE get_chain_tip(chain_tip[1]))
    /\ UNCHANGED <<now, ledger, db, chain_tip, queued_operations,
                   submit_log, sync_log>>

GetChainTip ==
    /\ result' = IF chain_tip = <<>> THEN Panic("get_chain_tip", "unreachable")
                 ELSE ReturnTip("get_chain_tip", get_chain_tip(chain_tip[1]))
    /\ UNCHANGED <<now, ledger, db, chain_tip, queued_operations,
                   submit_log, sync_log>>

StartOutcomes == {"ok", "connect_err", "tip_err"}

\* start: connect to the ledger, read its stubbed canonical tip, cache and
\* return the genesis state.
genesis_state(block_snapshot, time) ==
    [block_snapshot |-> block_snapshot,
     state_transition |-> [burn_dist |-> <<>>,
                           accepted_ops |-> <<>>,
                           consumed_leader_keys |-> <<>>],
     received_at |-> time]

\* start that also resets the queue.
Start_resets_queue(outcome) ==
    LET stored == SortitionDB_connect(ledger, now)
        tip == genesis_state(get_canonical_burn_chain_tip_stubbed(stored), now)
    IN  /\ ledger' = IF outcome = "connect_err" THEN ledger ELSE stored
        /\ db' = IF outcome = "ok" THEN <<"SortitionDB">> ELSE db
        /\ chain_tip' = IF outcome = "ok" THEN <<tip>> ELSE chain_tip
        /\ queued_operations' = IF outcome = "ok" THEN <<>> ELSE queued_operations
        /\ result' = IF outcome = "ok" THEN ReturnTip("start", tip)
                     ELSE Panic("start", outcome)
        /\ UNCHANGED <<now, submit_log, sync_log>>

Start(outcome) ==
    LET stored == SortitionDB_connect(ledger, now)
        tip == genesis_state(get_canonical_burn_chain_tip_stubbed(stored), now)
    IN  /\ ledger' = IF outcome = "connect_err" THEN ledger ELSE stored
        /\ db' = IF outcome = "ok" THEN <<"SortitionDB">> ELSE db
        /\ chain_tip' = IF outcome = "ok" THEN <<tip>> ELSE chain_tip
        /\ result' = IF outcome = "ok" THEN ReturnTip("start", tip)
                     ELSE Panic("start", outcome)
        /\ UNCHANGED <<now, queued_operations, submit_log, sync_log>>

\* push_front in place of push_back.
push_back_at_front(queue, operation) == <<operation>> \o queue

\* submit_operation: push_back, true.
push_back(queue, operation) == Append(queue, operation)

submit_operation(operation) ==
    /\ queued_operations' = push_back(queued_operations, operation)
    /\ result' = ReturnBool("submit_operation", TRUE)
    /\ submit_log' = Append(submit_log, operation)
    /\ UNCHANGED <<now, ledger, db, chain_tip, sync_log>>

SubmitOperation(operation) ==
    /\ Len(submit_log) < MaxSubmits
    /\ submit_operation(operation)

SyncOutcomes == {"ok", "begin_err", "process_err", "commit_err"}

\* sync draining the queue before it asks for the cached tip.
SyncUninitialized_drains_first ==
    /\ chain_tip = <<>>
    /\ queued_operations' = <<>>
    /\ result' = Panic("sync", "unreachable")
    /\ UNCHANGED <<now, ledger, db, chain_tip, submit_log, sync_log>>

\* sync caching a default tip when none is cached, in place of panicking.
SyncUninitialized_lazy_tip ==
    /\ chain_tip = <<>>
    /\ chain_tip' = <<genesis_state(InitialSnapshot(now), now)>>
    /\ result' = ReturnTip("sync", genesis_state(InitialSnapshot(now), now))
    /\ UNCHANGED <<now, ledger, db, queued_operations, submit_log, sync_log>>

\* sync called with no cached tip: get_chain_tip hits unreachable!() on the
\* first line, before anything else runs.
SyncUninitialized ==
    /\ chain_tip = <<>>
    /\ result' = Panic("sync", "unreachable")
    /\ UNCHANGED <<now, ledger, db, chain_tip, queued_operations,
                   submit_log, sync_log>>

\* The ledger transaction is durable only when begin, process_block_ops and
\* commit all succeeded; dropping the handle rolls it back.
TxCommitted(stage) == stage = "ok"

\* The tip cached before commit() is attempted.
TipPublished_before_commit(stage) == stage \in {"ok", "commit_err"}

\* `self.chain_tip = Some(new_state.clone())` runs only when none of the
\* three unwrap() calls before it panicked.
TipPublished(stage) == stage = "ok"

\* `if let` in place of `while let`: only the front operation is popped.
DrainQueue_front_only(queue, next_block_header) ==
    IF queue = <<>> THEN [queue |-> queue, ops |-> <<>>]
    ELSE [queue |-> Tail(queue),
          ops |-> <<StampOp(Head(queue), next_block_header, FirstVtxindex)>>]

\* The queue iterated by reference: stamped, never popped.
DrainQueue_not_popped(queue, next_block_header) ==
    [queue |-> queue,
     ops |-> DrainLoop(queue, <<>>, FirstVtxindex, next_block_header).ops]

\* pop_back in place of pop_front: the queue drained from its tail.
RECURSIVE Reversed(_)
Reversed(queue) ==
    IF queue = <<>> THEN <<>> ELSE Append(Reversed(Tail(queue)), Head(queue))

DrainQueue_pop_back(queue, next_block_header) ==
    DrainLoop(Reversed(queue), <<>>, FirstVtxindex, next_block_header)

\* The stamping section of sync: ops starts empty, vtxindex starts at 1.
DrainQueue(queue, next_block_header) ==
    DrainLoop(queue, <<>>, FirstVtxindex, next_block_header)

\* The new state built from empty vectors, as start() builds the genesis
\* state, in place of the ledger's record.
NewState_empty_transition(new_chain_tip, time) ==
    [block_snapshot |-> new_chain_tip.block_snapshot,
     state_transition |-> [burn_dist |-> <<>>,
                           accepted_ops |-> <<>>,
                           consumed_leader_keys |-> <<>>],
     received_at |-> time]

\* `let new_state = BurnchainTip { block_snapshot, state_transition,
\* received_at: Instant::now() }` from the pair process_block_ops returned.
NewState(new_chain_tip, time) ==
    [block_snapshot |-> new_chain_tip.block_snapshot,
     state_transition |-> new_chain_tip.state_transition,
     received_at |-> time]

\* One step of sync as the ledger and the controller see it.
Call(name, args, ok) == [call |-> name, args |-> args, ok |-> ok]

\* The transaction opened at the sortition id of the block being built.
SyncCalls_anchor_at_next(tip, next_block_header, ops, stage) ==
    <<Call("build_next_block_header", <<tip.block_snapshot>>, TRUE),
      Call("drain", <<>>, TRUE)>>
    \o (IF stage = "no_db" THEN <<>>
        ELSE <<Call("begin", <<SortitionId(next_block_header.block_hash)>>,
                    stage # "begin_err")>>)
    \o (IF stage \in {"no_db", "begin_err"} THEN <<>>
        ELSE <<Call("process_block_ops",
                    <<tip.block_snapshot, next_block_header, ops>>,
                    stage # "process_err")>>)
    \o (IF stage \in {"no_db", "begin_err", "process_err"} THEN <<>>
        ELSE <<Call("commit", <<>>, stage # "commit_err")>>)
    \o (IF stage = "ok" THEN <<Call("publish", <<>>, TRUE)>> ELSE <<>>)

\* The steps one sync call takes, in program order, up to the unwrap() or
\* unreachable!() that stops it: the header, the drain loop, begin,
\* process_block_ops, commit, and the assignment to self.chain_tip.
SyncCalls(tip, next_block_header, ops, stage) ==
    <<Call("build_next_block_header", <<tip.block_snapshot>>, TRUE),
      Call("drain", <<>>, TRUE)>>
    \o (IF stage = "no_db" THEN <<>>
        ELSE <<Call("begin", <<tip.block_snapshot.sortition_id>>,
                    stage # "begin_err")>>)
    \o (IF stage \in {"no_db", "begin_err"} THEN <<>>
        ELSE <<Call("process_block_ops",
                    <<tip.block_snapshot, next_block_header, ops>>,
                    stage # "process_err")>>)
    \o (IF stage \in {"no_db", "begin_err", "process_err"} THEN <<>>
        ELSE <<Call("commit", <<>>, stage # "commit_err")>>)
    \o (IF stage = "ok" THEN <<Call("publish", <<>>, TRUE)>> ELSE <<>>)

\* A header whose height advances by the number of queued operations.
SyncHeader_height_counts_ops ==
    [build_next_block_header(chain_tip[1].block_snapshot, now)
       EXCEPT !.block_height =
         chain_tip[1].block_snapshot.block_height + Len(queued_operations)]

\* A header whose hash also covers the queued operations.
SyncHeader_covers_queue ==
    [build_next_block_header(chain_tip[1].block_snapshot, now)
       EXCEPT !.block_hash =
         Sha256Sum_from_data(chain_tip[1].block_snapshot.burn_header_hash
                               \o <<Len(queued_operations)>>)]

\* The header sync builds from the cached tip.
SyncHeader == build_next_block_header(chain_tip[1].block_snapshot, now)

\* sync with a cached tip.  outcome: how far the ledger calls get;
\* keep: the positions of the batch the ledger accepts.
SyncReady(outcome, keep) ==
    /\ chain_tip # <<>>
    /\ Len(sync_log) < MaxSyncs
    /\ LET tip == get_chain_tip(chain_tip[1])
           next_block_header == SyncHeader
           drained == DrainQueue(queued_operations, next_block_header)
           ops == drained.ops
           stage == IF db = <<>> THEN "no_db" ELSE outcome
           new_chain_tip == process_block_ops(tip.block_snapshot,
                                              next_block_header, ops, keep)
           new_state == NewState(new_chain_tip, now)
       IN  /\ keep \subseteq 1..Len(ops)
           /\ (stage # "ok") => keep = {}
           /\ queued_operations' = drained.queue
           /\ ledger' = IF TxCommitted(stage)
                        THEN Append(ledger, new_chain_tip.block_snapshot)
                        ELSE ledger
           /\ chain_tip' = IF TipPublished(stage) THEN <<new_state>>
                           ELSE chain_tip
           /\ result' = IF stage = "ok" THEN ReturnTip("sync", new_state)
                        ELSE Panic("sync", stage)
           /\ sync_log' = Append(sync_log,
                                 [tip |-> tip,
                                  header |-> next_block_header,
                                  ops |-> ops,
                                  nsub |-> Len(submit_log),
                                  at |-> now,
                                  stage |-> stage,
                                  keep |-> keep,
                                  calls |-> SyncCalls(tip, next_block_header,
                                                      ops, stage)])
           /\ UNCHANGED <<now, db, submit_log>>

Next ==
    \/ Tick
    \/ GetChainTip
    \/ \E outcome \in StartOutcomes : Start(outcome)
    \/ \E operation \in BlockstackOperationType : SubmitOperation(operation)
    \/ SyncUninitialized
    \/ \E outcome \in SyncOutcomes :
         \E keep \in SUBSET (1..Len(queued_operations)) : SyncReady(outcome, keep)

Spec == Init /\ [][Next]_vars

\* ------------------------------------------------------------- producers
\* Several producers share the controller behind a lock: every
\* submit_operation and every sync runs as one step, and the steps of the
\* producers interleave in any order.  Producer p submits the operations of
\* Program(p) one after the other; no two operations of the programs are
\* equal.
Producers == 1..NumProducers

ProducerOp(p, k) ==
    LET s == p + NumProducers * (k - 1)
    IN  CASE k % 3 = 1 -> LeaderKeyRegisterOp(s)
          [] k % 3 = 2 -> LeaderBlockCommitOp(s)
          [] k % 3 = 0 -> UserBurnSupportOp(s)

Program(p) == [k \in 1..OpsPerProducer |-> ProducerOp(p, k)]

ProgramPayloads(p) == { Payload(ProducerOp(p, k)) : k \in 1..OpsPerProducer }

\* How many of its operations producer p has submitted.
Submitted(p) ==
    Cardinality({ i \in 1..Len(submit_log) :
                    Payload(submit_log[i]) \in ProgramPayloads(p) })

ProducerSubmit(p) ==
    /\ Submitted(p) < OpsPerProducer
    /\ submit_operation(Program(p)[Submitted(p) + 1])

\* The clock and the ledger's choices play no part in the queue: the
\* ledger accepts every batch or fails at commit.
NextProducers ==
    \/ Start("ok")
    \/ \E p \in Producers : ProducerSubmit(p)
    \/ \E outcome \in {"ok", "commit_err"} :
         SyncReady(outcome, IF outcome = "ok"
                            THEN 1..Len(queued_operations) ELSE {})

SpecProducers == Init /\ [][NextProducers]_vars

\* ------------------------------------------------------------ the history
\* The syncs whose batch reached process_block_ops.
Handed(e) == e.stage \in {"process_err", "commit_err", "ok"}

\* The syncs that ended in a panic after draining the queue.
Failed(e) == e.stage # "ok"

\* How many operations had been submitted when the sync before the k-th
\* logged sync ran.
SubmittedBefore(k) == IF k = 1 THEN 0 ELSE sync_log[k - 1].nsub

\* The payloads of the first k logged batches, in drain order.
RECURSIVE DrainedPayloads(_)
DrainedPayloads(k) ==
    IF k = 0 THEN <<>>
    ELSE DrainedPayloads(k - 1) \o Payloads(sync_log[k].ops)

LastSync == sync_log[Len(sync_log)]

\* The last call was a sync that got past get_chain_tip.
AfterSyncReady ==
    /\ result.op = "sync"
    /\ result.why # "unreachable"
    /\ sync_log # <<>>

\* ------------------------------------------------------------------ claims
\* C1: the batch a sync hands to process_block_ops holds exactly the N
\* operations submitted since the sync before it, in submission order, and
\* its i-th entry carries vtxindex i (so the vtxindex values are 1..N).
\* A sync called before start() panics on its first line and drains nothing;
\* the syncs counted here are the ones that run with a cached tip.
C1_BatchInSubmissionOrder ==
    \A k \in 1..Len(sync_log) :
        LET e == sync_log[k]
            first == SubmittedBefore(k)
            N == e.nsub - first
        IN  Handed(e) =>
              /\ Len(e.ops) = N
              /\ \A i \in 1..N :
                    /\ e.ops[i].vtxindex = i
                    /\ Payload(e.ops[i]) = Payload(submit_log[first + i])
              /\ { e.ops[i].vtxindex : i \in 1..Len(e.ops) } = 1..N

C1_Witness ==
    \E k \in 2..Len(sync_log) :
        /\ Handed(sync_log[k])
        /\ Len(sync_log[k].ops) = 2
        /\ sync_log[k].nsub - sync_log[k - 1].nsub = 2
        /\ sync_log[k].ops[1].kind # sync_log[k].ops[2].kind

\* C2: every submitted operation is drained exactly once, by the first sync
\* that follows its submission: the drained batches followed by the queue
\* are the submissions in order, and the first k batches hold exactly the
\* operations submitted before the k-th sync, so none is queued or stamped
\* again later.
C2_ExactlyOnce ==
    /\ DrainedPayloads(Len(sync_log)) \o Payloads(queued_operations)
         = Payloads(submit_log)
    /\ \A k \in 1..Len(sync_log) :
          Len(DrainedPayloads(k)) = sync_log[k].nsub

C2_Witness ==
    /\ Len(sync_log) = 2
    /\ sync_log[1].ops # <<>>
    /\ sync_log[2].ops # <<>>
    /\ sync_log[1].stage = "ok"
    /\ queued_operations = <<>>

\* C3: when process_block_ops or commit fails, the cached tip is the tip from
\* before the sync, the call returns no tip, and the ledger holds what it
\* held before, with no snapshot for the attempted block.
C3_FailedSyncChangesNoTip ==
    (AfterSyncReady /\ result.why \in {"process_err", "commit_err"}) =>
        /\ chain_tip = <<LastSync.tip>>
        /\ result.panicked
        /\ result.tip = <<>>
        /\ get_canonical_burn_chain_tip_stubbed(ledger) = LastSync.tip.block_snapshot
        /\ \A i \in 1..Len(ledger) :
              /\ ledger[i].burn_header_hash # LastSync.header.block_hash
              /\ ledger[i].block_height # LastSync.header.block_height

C3_Witness ==
    /\ AfterSyncReady
    /\ result.why = "commit_err"
    /\ LastSync.ops # <<>>
    /\ Len(ledger) > 1

\* C4: after a sync that ran with a cached tip the queue is empty whether the
\* ledger calls succeeded or failed, and a sync that follows a failed one is
\* handed only operations submitted after the failed one.
C4_QueueEmptyAfterSync ==
    /\ AfterSyncReady => queued_operations = <<>>
    /\ \A k \in 1..Len(sync_log) : \A j \in (k + 1)..Len(sync_log) :
          Failed(sync_log[k]) =>
             /\ Len(sync_log[j].ops) <= sync_log[j].nsub - sync_log[k].nsub
             /\ Payloads(sync_log[j].ops)
                  = Payloads(SubSeq(submit_log,
                                    sync_log[j].nsub - Len(sync_log[j].ops) + 1,
                                    sync_log[j].nsub))

C4_Witness ==
    /\ Len(sync_log) = 2
    /\ Failed(sync_log[1])
    /\ Len(sync_log[1].ops) = 2
    /\ sync_log[2].stage = "ok"
    /\ sync_log[2].ops = <<>>
    /\ AfterSyncReady

\* C5: a submit_operation call returns true, appends the operation as it was
\* submitted at the tail of the queue, keeps the operations already queued in
\* their order, and leaves the cached tip (and the DB handle) as they were.
C5_SubmitAppends ==
    [][ submit_log' # submit_log =>
          /\ result'.op = "submit_operation"
          /\ ~result'.panicked
          /\ result'.accepted = <<TRUE>>
          /\ Len(queued_operations') = Len(queued_operations) + 1
          /\ SubSeq(queued_operations', 1, Len(queued_operations))
               = queued_operations
          /\ queued_operations'[Len(queued_operations')]
               = submit_log'[Len(submit_log')]
          /\ chain_tip' = chain_tip
          /\ db' = db ]_vars

C5_Witness ==
    /\ result.op = "submit_operation"
    /\ Len(queued_operations) = 2
    /\ queued_operations = submit_log
    /\ queued_operations[1] # queued_operations[2]
    /\ chain_tip = <<>>

\* C6: get_chain_tip before any start() panics with unreachable!() and
\* returns no tip; after start() and before any sync it returns the genesis
\* tip: the ledger's stubbed canonical tip with empty accepted_ops, burn_dist
\* and consumed_leader_keys.
C6_TipBeforeAndAfterStart ==
    result.op = "get_chain_tip" =>
        /\ db = <<>> =>
              /\ result.panicked
              /\ result.why = "unreachable"
              /\ result.tip = <<>>
        /\ (db # <<>> /\ sync_log = <<>>) =>
              /\ ~result.panicked
              /\ Len(result.tip) = 1
              /\ result.tip[1].block_snapshot
                   = get_canonical_burn_chain_tip_stubbed(ledger)
              /\ result.tip[1].state_transition.accepted_ops = <<>>
              /\ result.tip[1].state_transition.burn_dist = <<>>
              /\ result.tip[1].state_transition.consumed_leader_keys = <<>>

C6_Witness ==
    /\ result.op = "get_chain_tip"
    /\ db # <<>>
    /\ sync_log = <<>>
    /\ Len(result.tip) = 1
    /\ result.tip[1].block_snapshot.block_height = FIRST_BLOCK_HEIGHT
    /\ queued_operations # <<>>

\* C7 as stated: two headers built from the same block snapshot are equal in
\* every field, the timestamp included, and the height is the snapshot's
\* height plus 1.
C7_SameSnapshotSameHeader ==
    \A i, j \in 1..Len(sync_log) :
        sync_log[i].tip.block_snapshot = sync_log[j].tip.block_snapshot =>
            /\ sync_log[i].header = sync_log[j].header
            /\ sync_log[i].header.block_height
                 = sync_log[i].tip.block_snapshot.block_height + 1

\* C7 as amended: two headers built from the same block snapshot are equal in
\* every field but the timestamp, the timestamp is the wall clock read during
\* the call, and the height is the snapshot's height plus 1.
C7_SameSnapshotSameHeaderButTimestamp ==
    \A i, j \in 1..Len(sync_log) :
        /\ sync_log[i].header.timestamp = sync_log[i].at
        /\ sync_log[i].header.block_height
             = sync_log[i].tip.block_snapshot.block_height + 1
        /\ sync_log[i].tip.block_snapshot = sync_log[j].tip.block_snapshot =>
             [sync_log[i].header EXCEPT !.timestamp = 0]
               = [sync_log[j].header EXCEPT !.timestamp = 0]

C7_Witness ==
    \E i, j \in 1..Len(sync_log) :
        /\ i # j
        /\ sync_log[i].tip.block_snapshot = sync_log[j].tip.block_snapshot
        /\ sync_log[i].header.timestamp # sync_log[j].header.timestamp

\* C8: the queue never influences the header: two syncs that start from the
\* same cached snapshot build headers with the same height, hash and parent
\* hash whatever they drain, and two headers with the same parent hash have
\* the same hash.
C8_HeaderIgnoresQueue ==
    \A i, j \in 1..Len(sync_log) :
        LET hi == sync_log[i].header
            hj == sync_log[j].header
        IN  /\ sync_log[i].tip.block_snapshot = sync_log[j].tip.block_snapshot =>
                 /\ hi.block_height = hj.block_height
                 /\ hi.block_hash = hj.block_hash
                 /\ hi.parent_block_hash = hj.parent_block_hash
            /\ hi.parent_block_hash = hj.parent_block_hash =>
                 hi.block_hash = hj.block_hash

C8_Witness ==
    \E i, j \in 1..Len(sync_log) :
        /\ sync_log[i].tip.block_snapshot = sync_log[j].tip.block_snapshot
        /\ Len(sync_log[i].ops) = 2
        /\ Len(sync_log[j].ops) = 0
        /\ sync_log[i].header.block_hash = sync_log[j].header.block_hash

\* C9: two stamped operations with the same block height and the same
\* vtxindex carry the same txid, whatever their variants and payloads.
C9_TxidFromHeightAndVtxindex ==
    \A i, j \in 1..Len(sync_log) :
        \A p \in 1..Len(sync_log[i].ops) : \A q \in 1..Len(sync_log[j].ops) :
            LET a == sync_log[i].ops[p]
                b == sync_log[j].ops[q]
            IN  (a.block_height = b.block_height /\ a.vtxindex = b.vtxindex)
                   => a.txid = b.txid

C9_Witness ==
    \E i, j \in 1..Len(sync_log) :
        /\ i # j
        /\ sync_log[i].ops # <<>>
        /\ sync_log[j].ops # <<>>
        /\ sync_log[i].ops[1].block_height = sync_log[j].ops[1].block_height
        /\ sync_log[i].ops[1].kind # sync_log[j].ops[1].kind
        /\ sync_log[i].ops[1].txid = sync_log[j].ops[1].txid

\* C10: every operation stamped by one sync carries the block height and
\* the hash of the header built for that sync, and that height is the cached
\* tip's height plus 1.
C10_BatchTaggedWithHeader ==
    \A k \in 1..Len(sync_log) :
        LET e == sync_log[k]
        IN  /\ e.header.block_height = e.tip.block_snapshot.block_height + 1
            /\ \A i \in 1..Len(e.ops) :
                  /\ e.ops[i].kind \in {"LeaderKeyRegister", "LeaderBlockCommit",
                                        "UserBurnSupport"}
                  /\ e.ops[i].block_height = e.header.block_height
                  /\ e.ops[i].burn_header_hash = e.header.block_hash

C10_Witness ==
    \E k \in 1..Len(sync_log) :
        LET e == sync_log[k]
        IN  /\ Len(e.ops) = 2
            /\ e.ops[1].kind = "LeaderKeyRegister"
            /\ e.ops[2].kind = "UserBurnSupport"
            /\ e.ops[1].block_height = FIRST_BLOCK_HEIGHT + 1
            /\ e.ops[1].burn_header_hash = e.ops[2].burn_header_hash


\* C11: a successful sync returns and caches the pair process_block_ops
\* returned, unchanged; get_chain_tip returns the cached tip and leaves it
\* cached; only sync and start replace the cached tip, so get_chain_tip
\* called after the sync and before the next sync or start returns the
\* snapshot and state transition the sync returned.
C11_PublishedTipIsLedgerResult ==
    [][ /\ (sync_log' # sync_log /\ sync_log'[Len(sync_log')].stage = "ok") =>
            LET e == sync_log'[Len(sync_log')]
                returned == process_block_ops(e.tip.block_snapshot, e.header,
                                              e.ops, e.keep)
            IN  /\ Len(result'.tip) = 1
                /\ result'.tip[1].block_snapshot = returned.block_snapshot
                /\ result'.tip[1].state_transition = returned.state_transition
                /\ chain_tip' = result'.tip
        /\ (result'.op = "get_chain_tip" /\ chain_tip # <<>>) =>
                /\ chain_tip' = chain_tip
                /\ Len(result'.tip) = 1
                /\ result'.tip[1].block_snapshot = chain_tip[1].block_snapshot
                /\ result'.tip[1].state_transition = chain_tip[1].state_transition
        /\ chain_tip' # chain_tip =>
                /\ result'.op \in {"sync", "start"}
                /\ ~result'.panicked ]_vars

C11_Witness ==
    /\ result.op = "get_chain_tip"
    /\ sync_log # <<>>
    /\ LastSync.stage = "ok"
    /\ Len(LastSync.ops) = 2
    /\ Len(result.tip) = 1
    /\ Len(result.tip[1].state_transition.accepted_ops) = 1
    /\ result.tip[1].state_transition.accepted_ops[1] = LastSync.ops[2]
    /\ result.tip[1].block_snapshot.burn_header_hash = LastSync.header.block_hash


\* The two states of the controller.
Uninitialized == chain_tip = <<>> /\ db = <<>>

Ready == chain_tip # <<>> /\ db # <<>>

\* C12: the controller is Uninitialized or Ready; only a start() that
\* returns moves it from Uninitialized to Ready; once Ready it stays Ready,
\* submit_operation and sync leave the DB handle alone, submit_operation
\* leaves the cached tip alone, and both remain callable.
C12_UninitializedThenReady ==
    [][ /\ Uninitialized' \/ Ready'
        /\ (Uninitialized /\ Ready') =>
              /\ result'.op = "start"
              /\ ~result'.panicked
        /\ (Uninitialized /\ result'.op \in {"submit_operation",
                                               "get_chain_tip", "sync"}) =>
              Uninitialized'
        /\ Ready => Ready'
        /\ (Ready /\ result'.op \in {"submit_operation", "sync"}) => db' = db
        /\ (Ready /\ result'.op = "submit_operation") => chain_tip' = chain_tip
        /\ (Ready' /\ Len(submit_log') < MaxSubmits) =>
              (ENABLED SubmitOperation(LeaderKeyRegisterOp(1)))'
        /\ (Ready' /\ Len(sync_log') < MaxSyncs) =>
              (ENABLED SyncReady("ok", {}))' ]_vars

C12_Witness ==
    /\ Ready
    /\ result.op = "sync"
    /\ Len(sync_log) = 2
    /\ Len(submit_log) = 2
    /\ sync_log[1].stage = "commit_err"
    /\ sync_log[2].stage = "ok"


\* C13: a sync that finds the queue empty (nothing was submitted since the
\* sync before it) can succeed; it hands process_block_ops an empty batch,
\* and when the ledger calls succeed the new tip has no accepted operations
\* and a height 1 above the tip the sync started from.
C13_EmptyQueueAdvances ==
    /\ (Ready /\ queued_operations = <<>> /\ Len(sync_log) < MaxSyncs) =>
          ENABLED SyncReady("ok", {})
    /\ (AfterSyncReady /\ LastSync.nsub = SubmittedBefore(Len(sync_log))) =>
          /\ LastSync.ops = <<>>
          /\ LastSync.stage \in SyncOutcomes
          /\ LastSync.stage = "ok" =>
                /\ ~result.panicked
                /\ chain_tip = result.tip
                /\ result.tip[1].state_transition.accepted_ops = <<>>
                /\ result.tip[1].block_snapshot.block_height
                     = LastSync.tip.block_snapshot.block_height + 1

C13_Witness ==
    /\ AfterSyncReady
    /\ Len(sync_log) = 2
    /\ Len(submit_log) = 2
    /\ LastSync.nsub = SubmittedBefore(2)
    /\ LastSync.ops = <<>>
    /\ LastSync.stage = "ok"
    /\ sync_log[1].stage = "ok"
    /\ chain_tip[1].block_snapshot.block_height = FIRST_BLOCK_HEIGHT + 2


\* C14: every drained operation comes out with the variant, the fields and
\* the payload values it was submitted with; only txid, vtxindex,
\* block_height and burn_header_hash are set anew, from the header and the
\* position; and the batch has one entry per submission, duplicates included,
\* in submission order.
C14_StampingKeepsPayload ==
    \A k \in 1..Len(sync_log) :
        LET e == sync_log[k]
            first == SubmittedBefore(k)
        IN  /\ Len(e.ops) = e.nsub - first
            /\ \A i \in 1..Len(e.ops) :
                  LET o == e.ops[i]
                      s == submit_log[first + i]
                  IN  /\ o.kind = s.kind
                      /\ DOMAIN o = DOMAIN s
                      /\ \A f \in (DOMAIN s) \ StampedFields : o[f] = s[f]
                      /\ o.txid = MakeTxid(e.header.block_height, i)
                      /\ o.txid # s.txid
                      /\ o.vtxindex = i
                      /\ o.block_height = e.header.block_height
                      /\ o.burn_header_hash = e.header.block_hash
                      /\ o.burn_header_hash # s.burn_header_hash

C14_Witness ==
    \E k \in 1..Len(sync_log) :
        LET e == sync_log[k]
        IN  /\ Len(e.ops) = 2
            /\ e.ops[1].kind = "LeaderBlockCommit"
            /\ Payload(e.ops[1]) = Payload(e.ops[2])
            /\ e.ops[1] # e.ops[2]
            /\ e.ops[1].parent_block_ptr = submit_log[1].parent_block_ptr
            /\ submit_log[1] = submit_log[2]


\* The order of the steps of a sync that runs to the end.
SyncOrder ==
    <<"build_next_block_header", "drain", "begin", "process_block_ops",
      "commit", "publish">>

CallNames(e) == [i \in 1..Len(e.calls) |-> e.calls[i].call]

HasCall(e, name) == \E i \in 1..Len(e.calls) : e.calls[i].call = name

\* C15: the steps of every sync are a prefix of: build the header from the
\* cached snapshot, drain and stamp, begin one transaction at the cached
\* snapshot's sortition id, process_block_ops once with the cached snapshot,
\* that header and the whole batch, commit, publish.  A step is taken only
\* when the one before it succeeded, and the cached tip and the ledger change
\* only in a sync that reached the publish step.
C15_SyncStepOrder ==
    /\ \A k \in 1..Len(sync_log) :
          LET e == sync_log[k]
              n == Len(e.calls)
          IN  /\ n >= 3
              /\ CallNames(e) = SubSeq(SyncOrder, 1, n)
              /\ \A i \in 1..(n - 1) : e.calls[i].ok
              /\ e.calls[n].ok <=> e.stage = "ok"
              /\ e.calls[1].args = <<e.tip.block_snapshot>>
              /\ e.header.parent_block_hash = e.tip.block_snapshot.burn_header_hash
              /\ e.calls[3].args = <<e.tip.block_snapshot.sortition_id>>
              /\ n >= 4 => e.calls[4].args = <<e.tip.block_snapshot, e.header, e.ops>>
              /\ Len(e.ops) = e.nsub - SubmittedBefore(k)
    /\ AfterSyncReady =>
          IF HasCall(LastSync, "publish")
          THEN /\ chain_tip = result.tip
               /\ chain_tip[1].block_snapshot.burn_header_hash
                    = LastSync.header.block_hash
               /\ get_canonical_burn_chain_tip_stubbed(ledger)
                    = chain_tip[1].block_snapshot
          ELSE /\ chain_tip = <<LastSync.tip>>
               /\ get_canonical_burn_chain_tip_stubbed(ledger)
                    = LastSync.tip.block_snapshot

C15_Witness ==
    /\ AfterSyncReady
    /\ Len(sync_log) = 2
    /\ CallNames(sync_log[1]) = SyncOrder
    /\ CallNames(sync_log[2]) = SubSeq(SyncOrder, 1, 5)
    /\ Len(sync_log[2].ops) = 2
    /\ sync_log[2].calls[3].args # <<SortitionId(ZERO_HASH)>>


\* The height of a cached tip.
TipHeight(tip) == tip[1].block_snapshot.block_height

\* C16: once a tip is cached, every sync builds a header one above the
\* cached height whose parent hash is the cached header hash; the cached
\* height rises by exactly 1 in a sync that succeeds, stays as it is in a
\* sync that fails and in submit_operation and get_chain_tip, and never
\* decreases.
C16_HeightMonotonic ==
    [][ chain_tip # <<>> =>
          /\ chain_tip' # <<>>
          /\ TipHeight(chain_tip') >= TipHeight(chain_tip)
          /\ sync_log' # sync_log =>
                LET e == sync_log'[Len(sync_log')]
                IN  /\ e.header.block_height = TipHeight(chain_tip) + 1
                    /\ e.header.parent_block_hash
                         = chain_tip[1].block_snapshot.burn_header_hash
                    /\ IF e.stage = "ok"
                       THEN /\ TipHeight(chain_tip') = TipHeight(chain_tip) + 1
                            /\ chain_tip'[1].block_snapshot.burn_header_hash
                                 = e.header.block_hash
                            /\ chain_tip'[1].block_snapshot.parent_burn_header_hash
                                 = chain_tip[1].block_snapshot.burn_header_hash
                       ELSE chain_tip' = chain_tip
          /\ result'.op \in {"submit_operation", "get_chain_tip"} =>
                TipHeight(chain_tip') = TipHeight(chain_tip) ]_vars

C16_Witness ==
    /\ result.op = "get_chain_tip"
    /\ Len(sync_log) = 2
    /\ sync_log[1].stage = "ok"
    /\ sync_log[2].stage = "ok"
    /\ Len(submit_log) = 2
    /\ TipHeight(chain_tip) = FIRST_BLOCK_HEIGHT + 2


\* Every operation that left a producer, in the order the controller dealt
\* with it: the stamped batches in sync order, then the queue.
ProducerStream ==
    DrainedPayloads(Len(sync_log)) \o Payloads(queued_operations)

OfProducer(stream, p) ==
    SelectSeq(stream, LAMBDA x : x \in ProgramPayloads(p))

\* C17: under every interleaving of the producers' submit_operation calls
\* and the sync calls, the batches followed by the queue hold every submitted
\* operation exactly once, and the operations of each producer appear there
\* in the order the producer submitted them.
C17_ProducersKeepTheirOrder ==
    /\ Len(ProducerStream) = Len(submit_log)
    /\ \A p \in Producers :
          OfProducer(ProducerStream, p)
            = Payloads(SubSeq(Program(p), 1, Submitted(p)))
    /\ \A p \in Producers : \A n \in 1..Submitted(p) :
          Cardinality({ i \in 1..Len(ProducerStream) :
                          ProducerStream[i] = Payload(ProducerOp(p, n)) }) = 1

C17_Witness ==
    /\ Len(sync_log) = 2
    /\ Len(sync_log[1].ops) = 3
    /\ Payload(sync_log[1].ops[1]) = Payload(ProducerOp(2, 1))
    /\ Payload(sync_log[1].ops[2]) = Payload(ProducerOp(1, 1))
    /\ Payload(sync_log[1].ops[3]) = Payload(ProducerOp(2, 2))
    /\ Len(sync_log[2].ops) = 1
    /\ Payload(sync_log[2].ops[1]) = Payload(ProducerOp(1, 2))


\* A successful sync among the logged syncs i, i+1, ..., j-1.
SuccessBetween(i, j) == \E n \in i..(j - 1) : sync_log[n].stage = "ok"

\* C18 as stated: no two stamped operations handed to process_block_ops in
\* one run, in the same sync or in different syncs, carry the same txid.
C18_TxidsUniqueInRun ==
    \A i, j \in 1..Len(sync_log) :
        \A p \in 1..Len(sync_log[i].ops) : \A q \in 1..Len(sync_log[j].ops) :
            (Handed(sync_log[i]) /\ Handed(sync_log[j]) /\ <<i, p>> # <<j, q>>)
                => sync_log[i].ops[p].txid # sync_log[j].ops[q].txid

\* C18 as amended: two stamped operations of one batch, or of two batches
\* with a successful sync from the first up to before the second, carry
\* different txids; two batches with no successful sync between them are
\* built for the same height and give the same position the same txid.
C18_TxidsUniqueAcrossSuccess ==
    \A i, j \in 1..Len(sync_log) :
        \A p \in 1..Len(sync_log[i].ops) : \A q \in 1..Len(sync_log[j].ops) :
            /\ (i = j /\ p # q) =>
                  sync_log[i].ops[p].txid # sync_log[j].ops[q].txid
            /\ (i < j /\ SuccessBetween(i, j)) =>
                  sync_log[i].ops[p].txid # sync_log[j].ops[q].txid
            /\ (i < j /\ ~SuccessBetween(i, j) /\ p = q) =>
                  sync_log[i].ops[p].txid = sync_log[j].ops[q].txid

C18_Witness ==
    /\ Len(sync_log) = 2
    /\ sync_log[1].stage = "ok"
    /\ Len(sync_log[1].ops) = 1
    /\ Len(sync_log[2].ops) = 1
    /\ Handed(sync_log[2])
    /\ sync_log[1].ops[1].vtxindex = sync_log[2].ops[1].vtxindex
    /\ sync_log[1].ops[1].txid # sync_log[2].ops[1].txid


\* C19: start() leaves the queue as it is; while the controller is
\* Uninitialized every submit_operation returns true and the queue holds all
\* submissions in order; the first sync that runs stamps everything queued
\* up to then, operations submitted before start() included, with vtxindex
\* 1, 2, ... in submission order.
C19_QueueSurvivesStart ==
    [][ /\ result'.op = "start" => queued_operations' = queued_operations
        /\ Uninitialized' =>
              /\ queued_operations' = submit_log'
              /\ sync_log' = <<>>
        /\ (Uninitialized /\ submit_log' # submit_log) =>
              /\ result'.accepted = <<TRUE>>
              /\ Uninitialized'
        /\ (sync_log = <<>> /\ sync_log' # <<>>) =>
              LET e == sync_log'[1]
              IN  /\ queued_operations = submit_log
                  /\ Payloads(e.ops) = Payloads(queued_operations)
                  /\ \A i \in 1..Len(e.ops) : e.ops[i].vtxindex = i ]_vars

C19_Witness ==
    /\ result.op = "start"
    /\ ~result.panicked
    /\ Ready
    /\ sync_log = <<>>
    /\ Len(queued_operations) = 2
    /\ queued_operations = submit_log
    /\ queued_operations[1].kind # queued_operations[2].kind


\* C20: a sync called while no tip is cached panics with unreachable!() and
\* returns nothing; the queue, the cached tip, the DB handle and the ledger
\* are what they were, no header is built and no ledger call is made, and
\* the queue still holds every submitted operation in order.
C20_SyncBeforeStartPanics ==
    [][ (Uninitialized /\ result'.op = "sync") =>
          /\ result'.panicked
          /\ result'.why = "unreachable"
          /\ result'.tip = <<>>
          /\ Uninitialized'
          /\ queued_operations' = queued_operations
          /\ queued_operations' = submit_log'
          /\ ledger' = ledger
          /\ sync_log' = sync_log
          /\ sync_log' = <<>> ]_vars

C20_Witness ==
    /\ result.op = "sync"
    /\ result.why = "unreachable"
    /\ Uninitialized
    /\ Len(queued_operations) = 2
    /\ queued_operations[1].kind # queued_operations[2].kind
    /\ ledger = <<>>

====
